---- MODULE Spec2Model ----
(***************************************************************************)
(* The job-lifecycle controller of the diagnostics dashboard: the          *)
(* useDiagnosticJob hook (src/unnamed/part_002) together with the two HTTP *)
(* calls it awaits (src/frontend/src/services/api.ts).                     *)
(*                                                                         *)
(* One action is one run of the event loop: a call of submit() or reset(), *)
(* the unmount cleanup, the continuation after an awaited request settles, *)
(* or the firing of a poll timer.  Requests in flight and pending timers   *)
(* are part of the state, so every interleaving the single-threaded event  *)
(* loop allows is a behaviour of the model.                                *)
(*                                                                         *)
(* The telemetry channel: the TelemetryWebSocket singleton                 *)
(* (src/frontend/src/services/websocket.ts) and the useWebSocket hook that *)
(* subscribes to it (src/frontend/src/types/diagnostic.ts).  Its handlers  *)
(* are operators on the record chan; one action is a call of its public    *)
(* methods, the handling of one socket event, or the firing of the         *)
(* reconnect timer.  The channel and the job controller share no state:    *)
(* Spec and LiveSpec are the job controller, ChannelSpec is the channel.   *)
(***************************************************************************)
EXTENDS Naturals, FiniteSets, Sequences, TLC

\* ------------------------------------------------------------------ bounds

\* How many jobs the backend creates in one run (each successful submit gets
\* a fresh job id).
MaxJobs == 2

\* ------------------------------------------------------------- constants

\* null, for the string-valued state (error, result).
NULL == "null"

\* pollTimeout.current.  A timer handle is identified by what clearTimeout
\* does with it: NoTimer is null, Handle(j) is the handle of a timer of job
\* j's poll chain that is still pending, and FiredTimer is the handle of a
\* timer that has already fired (clearing it cancels nothing).
NoTimer == [kind |-> "null", jobId |-> 0]
FiredTimer == [kind |-> "fired", jobId |-> 0]
Handle(j) == [kind |-> "pending", jobId |-> j]

JobIds == 1 .. MaxJobs

\* type JobStatus
Statuses == {"pending", "processing", "completed", "failed"}

\* The terminal statuses: those for which the dashboard offers "Analyze
\* Another" (job.status === 'completed' || job.status === 'failed').
TerminalStatuses == {"completed", "failed"}

\* Position of a status on the path pending -> processing -> {completed|failed}.
Rank(s) ==
    CASE s = "none" -> 0
      [] s = "pending" -> 1
      [] s = "processing" -> 2
      [] OTHER -> 3

\* A mutation of IsTerminal: the check for 'failed' is forgotten.
IsTerminalCompletedOnly(s) == s = "completed"

\* jobStatus.status === 'completed' || jobStatus.status === 'failed'
IsTerminal(s) == s = "completed" \/ s = "failed"

\* The JobResponse the API returns for job j in status s; a completed job
\* carries its result.
JobResponse(j, s) ==
    [job_id |-> j, status |-> s,
     result |-> IF s = "completed" THEN "result" ELSE NULL]

\* null, for job.
NoJob == [job_id |-> 0, status |-> "none", result |-> NULL]

\* result: job?.result || null
Result(jb) == IF jb = NoJob THEN NULL ELSE jb.result

\* The messages a rejected request may carry (err.message); "" stands for a
\* missing or empty message.
ErrMessages == {"", "Network Error"}

\* err.message || dflt
ErrorText(msg, dflt) == IF msg # "" THEN msg ELSE dflt

\* ------------------------------------------- the telemetry channel: data

\* How many WebSocket objects created by the channel can be alive (not yet
\* closed) at once: the current one and those still closing after a
\* disconnect().
MaxSockets == 2

\* How many distinct listener callbacks subscribe in one run.
MaxListeners == 2

SockIds == 1 .. MaxSockets

\* this.ws === null.  readyState[s] is the WebSocket.readyState of socket s,
\* or "FREE" when s names no live socket.
NoSocket == 0

ListenerIds == 1 .. MaxListeners

\* The callback that useWebSocket subscribes; the other listeners are
\* arbitrary callbacks of other callers.
HookListener == 1

\* What an arbitrary callback does when it is called: it returns, it throws,
\* or it calls the unsubscribe function of listener k (its own or another's)
\* and returns.
CallbackActs ==
    {[kind |-> "return", target |-> 0], [kind |-> "throw", target |-> 0]}
    \cup {[kind |-> "unsubscribe", target |-> k] : k \in ListenerIds}

\* The text of an inbound frame: a telemetry message, a pong, a message of
\* another type, the JSON text null, and a text that is not JSON.
Frames == {"telemetry", "pong", "other", "null", "not-json"}

\* JSON.parse(event.data): ok is FALSE when it throws a SyntaxError; the
\* JSON text null parses to the value null, which has no properties.
JsonParse(frame) ==
    CASE frame = "telemetry" ->
            [ok |-> TRUE, isNull |-> FALSE, type |-> "telemetry", data |-> "snapshot"]
      [] frame = "pong" ->
            [ok |-> TRUE, isNull |-> FALSE, type |-> "pong", data |-> NULL]
      [] frame = "other" ->
            [ok |-> TRUE, isNull |-> FALSE, type |-> "other", data |-> NULL]
      [] frame = "null" ->
            [ok |-> TRUE, isNull |-> TRUE, type |-> NULL, data |-> NULL]
      [] OTHER ->
            [ok |-> FALSE, isNull |-> FALSE, type |-> NULL, data |-> NULL]

\* The TelemetryWebSocket object after construction, with the browser state
\* its fields refer to: readyState[s] of every socket it created, and pending,
\* the number of reconnect timers armed and neither fired nor cancelled.
\* reconnectTimeout is NULL, "armed" (the handle of a pending timer) or
\* "cancelled" (the handle of a timer that clearTimeout has cancelled).
\* listeners is the Set in insertion order.
NewChannel ==
    [ws |-> NoSocket,
     readyState |-> [s \in SockIds |-> "FREE"],
     listeners |-> <<>>,
     reconnectTimeout |-> NULL,
     pending |-> 0,
     isExplicitlyClosed |-> FALSE]

\* useState(null), useState(false) of useWebSocket.
NewHook == [mounted |-> FALSE, telemetry |-> NULL, isConnected |-> FALSE]

Range(seq) == {seq[i] : i \in 1 .. Len(seq)}

\* Set.prototype.add: appends unless present.
SetAdd(seq, l) == IF l \in Range(seq) THEN seq ELSE Append(seq, l)

\* Set.prototype.delete
SetDelete(seq, l) == SelectSeq(seq, LAMBDA x : x # l)

\* Number of sockets of c that are Open or Connecting.
LiveSockets(c) ==
    Cardinality({s \in SockIds : c.readyState[s] \in {"OPEN", "CONNECTING"}})

\* A closed socket that this.ws no longer refers to receives no more events
\* and is garbage.
Collect(c) ==
    [c EXCEPT !.readyState =
        [s \in SockIds |-> IF c.readyState[s] = "CLOSED" /\ s # c.ws
                           THEN "FREE" ELSE c.readyState[s]]]

\* WebSocket.close() on socket s: an Open or Connecting socket starts
\* closing, its close event comes later; otherwise nothing happens.
SocketClose(c, s) ==
    IF c.readyState[s] \in {"OPEN", "CONNECTING"}
    THEN [c EXCEPT !.readyState[s] = "CLOSING"]
    ELSE c

\* clearTimeout(this.reconnectTimeout): cancels the timer the handle names
\* if it is still pending; the field keeps the handle.
ClearTimeout(c) ==
    IF c.reconnectTimeout = "armed"
    THEN [c EXCEPT !.pending = @ - 1, !.reconnectTimeout = "cancelled"]
    ELSE c

\* A mutation of ConnectReturnsEarly: only an Open socket counts.
ConnectReturnsEarlyOpenOnly(c) ==
    c.ws # NoSocket /\ c.readyState[c.ws] = "OPEN"

\* connect(), line 22: this.ws && (readyState === OPEN || === CONNECTING)
ConnectReturnsEarly(c) ==
    c.ws # NoSocket /\ c.readyState[c.ws] \in {"OPEN", "CONNECTING"}

\* The id that new WebSocket(url) gets once this.ws is overwritten: the
\* least id naming no live socket (NoSocket when MaxSockets are alive).
FreshSocket(c) ==
    LET d == Collect([c EXCEPT !.ws = NoSocket])
        free == {s \in SockIds : d.readyState[s] = "FREE"}
    IN  IF free = {} THEN NoSocket
        ELSE CHOOSE s \in free : \A t \in free : s <= t

\* connect() can run to its end: it returns early or a socket id is free.
CanConnect(c) == ConnectReturnsEarly(c) \/ FreshSocket(c) # NoSocket

\* connect()
Connect(c) ==
    IF ConnectReturnsEarly(c) THEN c
    ELSE LET s == FreshSocket(c)
             d == Collect([c EXCEPT !.ws = NoSocket])
         IN  [d EXCEPT !.isExplicitlyClosed = FALSE,
                       !.ws = s,
                       !.readyState[s] = "CONNECTING"]

\* A mutation of DisconnectTimer: clearTimeout is forgotten.
DisconnectTimerKept(c) == c

\* disconnect(), lines 65-67: the timer is cancelled, the field keeps its
\* handle.
DisconnectTimer(c) ==
    IF c.reconnectTimeout # NULL THEN ClearTimeout(c) ELSE c

\* disconnect()
Disconnect(c) ==
    LET c1 == [c EXCEPT !.isExplicitlyClosed = TRUE]
        c2 == IF c1.ws # NoSocket
              THEN [SocketClose(c1, c1.ws) EXCEPT !.ws = NoSocket]
              ELSE c1
    IN  Collect(DisconnectTimer(c2))

\* scheduleReconnect(): setTimeout(..., 3000) unless the field is set.
ScheduleReconnect(c) ==
    IF c.reconnectTimeout # NULL THEN c
    ELSE [c EXCEPT !.reconnectTimeout = "armed", !.pending = @ + 1]

\* A mutation of OnOpen: the pending reconnect timer is left alone.
OnOpenKeepsTimer(c) == c

\* ws.onopen
OnOpen(c) ==
    IF c.reconnectTimeout # NULL
    THEN [ClearTimeout(c) EXCEPT !.reconnectTimeout = NULL]
    ELSE c

\* ws.onclose
OnClose(c) ==
    IF ~c.isExplicitlyClosed THEN ScheduleReconnect(c) ELSE c

\* ws.onerror: this.ws?.close()
OnError(c) ==
    IF c.ws # NoSocket THEN SocketClose(c, c.ws) ELSE c

\* The reconnect timer's callback, after the timer has left the pending
\* ones.
OnReconnectTimer(c) ==
    Connect([c EXCEPT !.reconnectTimeout = NULL])

\* The callback of useWebSocket called with the parsed message: reading
\* message.type of null throws a TypeError; the setters of an unmounted
\* component do nothing.
HookCallback(h, data) ==
    IF ~h.mounted THEN h
    ELSE IF data.type = "telemetry"
         THEN [h EXCEPT !.telemetry = data.data, !.isConnected = TRUE]
    ELSE IF data.type = "pong"
         THEN [h EXCEPT !.isConnected = TRUE]
    ELSE h

\* One call listener(data) inside notifyListeners.  d holds the Set, the
\* hook's state, the listeners called so far and whether a callback threw.
Call(l, d, data, acts) ==
    LET d1 == [d EXCEPT !.calls = Append(@, l)]
    IN  IF l = HookListener
        THEN IF data.isNull THEN [d1 EXCEPT !.threw = TRUE]
             ELSE [d1 EXCEPT !.hook = HookCallback(@, data)]
        ELSE CASE acts[l].kind = "throw" -> [d1 EXCEPT !.threw = TRUE]
               [] acts[l].kind = "unsubscribe" ->
                     [d1 EXCEPT !.listeners = SetDelete(@, acts[l].target)]
               [] OTHER -> d1

\* A mutation of Entry: the listeners are an array that unsubscribing
\* splices, and the iteration reads it by index.
EntrySpliced(order, live, i) ==
    IF i <= Len(live) THEN live[i] ELSE 0

\* Set.prototype.forEach visits the entries in insertion order; an entry
\* deleted before its turn is skipped (0), deleting an entry moves no other.
\* order is the Set when the iteration starts, live is the Set now.
Entry(order, live, i) ==
    IF order[i] \in Range(live) THEN order[i] ELSE 0

\* this.listeners.forEach((listener) => listener(data)), from entry i on; a
\* callback that throws ends the iteration.
RECURSIVE ForEach(_, _, _, _, _)
ForEach(order, i, d, data, acts) ==
    IF i > Len(order) \/ d.threw THEN d
    ELSE LET l == Entry(order, d.listeners, i)
         IN  IF l = 0 THEN ForEach(order, i + 1, d, data, acts)
             ELSE ForEach(order, i + 1, Call(l, d, data, acts), data, acts)

\* notifyListeners(data)
NotifyListeners(c, h, data, acts) ==
    ForEach(c.listeners, 1,
            [listeners |-> c.listeners, hook |-> h, calls |-> <<>>,
             threw |-> FALSE],
            data, acts)

\* A mutation of OnParseFailure: the connection is closed on a bad frame.
OnParseFailureCloses(c) == OnError(c)

\* The catch of ws.onmessage: console.error only.
OnParseFailure(c) == c

\* ws.onmessage for a frame: the channel, the hook's state, the listeners
\* called, whether a callback threw, and whether an exception left the
\* handler (the try block holds both JSON.parse and notifyListeners, so
\* none does).
OnMessage(c, h, frame, acts) ==
    LET data == JsonParse(frame)
    IN  IF ~data.ok
        THEN [chan |-> OnParseFailure(c), hook |-> h, calls |-> <<>>,
              threw |-> FALSE, escaped |-> FALSE]
        ELSE LET d == NotifyListeners(c, h, data, acts)
             IN  [chan |-> [c EXCEPT !.listeners = d.listeners],
                  hook |-> d.hook, calls |-> d.calls, threw |-> d.threw,
                  escaped |-> FALSE]

\* The history record before any step of the channel.
NoStep ==
    [op |-> "none", sock |-> NoSocket, frame |-> NULL, failed |-> FALSE,
     created |-> FALSE, hadTimer |-> FALSE, calls |-> <<>>, threw |-> FALSE,
     escaped |-> FALSE, disconnected |-> FALSE, heard |-> FALSE]

VARIABLES
    job,          \* useState<JobResponse | null>
    error,        \* useState<string | null>
    isLoading,    \* useState(false)
    pollTimeout,  \* pollTimeout.current: a timer handle or NoTimer
    timers,       \* timers[j]: number of pending poll timers () => pollStatus(j)
    submitting,   \* number of submitJob requests in flight
    polling,      \* polling[j]: number of getJobStatus(j) requests in flight
    mounted,      \* FALSE once the owning component has unmounted
    backend,      \* backend[j]: status of job j at the server, "none" before it exists
    superseded,   \* history: the tracked jobs that a later submit() call has superseded
    resetSince,   \* history: jobs whose status request was in flight at a reset()
    lastStored,   \* history: lastStored[j]: the last status stored into job for j
    scenario      \* history: "fresh" before any call, "single" while the run is one
                  \* submit() with no reset, unmount, transport error or second
                  \* submit(), "resetInFlight" once reset() has been called while
                  \* that one submitJob request was in flight and nothing else
                  \* has happened, "disturbed" after any other disturbance

VARIABLES
    chan,         \* the TelemetryWebSocket object telemetryService and its sockets
    hook,         \* the state of the component that uses useWebSocket
    trace         \* history: the last step of the channel

jobVars == <<job, error, isLoading, pollTimeout, timers, submitting, polling,
             mounted, backend, superseded, resetSince, lastStored, scenario>>

chanVars == <<chan, hook, trace>>

vars == <<jobVars, chanVars>>

\* Number of jobs the backend has created.
Created == Cardinality({j \in JobIds : backend[j] # "none"})

\* The jobs with a poll timer pending or a status request in flight.
TrackedIn(p, t) == {j \in JobIds : p[j] > 0 \/ t[j] > 0}

Tracked == TrackedIn(polling, timers)

\* if (pollTimeout.current), for a handle that names a pending timer.
IsPending(h) == h.kind = "pending"

\* stopPolling(): clearTimeout(pollTimeout.current) when the ref is set; it
\* cancels the timer with that handle if it is still pending.
StopPollingTimers ==
    IF IsPending(pollTimeout)
    THEN [timers EXCEPT ![pollTimeout.jobId] = @ - 1]
    ELSE timers

\* A mutation of LoadingAfterTerminal: setIsLoading(false) is forgotten.
LoadingAfterTerminalKept == isLoading

\* setIsLoading(false) once a poll has returned a terminal status.
LoadingAfterTerminal == FALSE

\* A mutation of AfterFire: the timer is periodic (setInterval) and stays armed.
AfterFireInterval(j) == timers

\* A setTimeout timer is one-shot: firing removes it.
AfterFire(j) == [timers EXCEPT ![j] = @ - 1]

Init ==
    /\ job = NoJob
    /\ error = NULL
    /\ isLoading = FALSE
    /\ pollTimeout = NoTimer
    /\ timers = [j \in JobIds |-> 0]
    /\ submitting = 0
    /\ polling = [j \in JobIds |-> 0]
    /\ mounted = TRUE
    /\ backend = [j \in JobIds |-> "none"]
    /\ superseded = {}
    /\ resetSince = {}
    /\ lastStored = [j \in JobIds |-> "none"]
    /\ scenario = "fresh"
    /\ chan = NewChannel
    /\ hook = NewHook
    /\ trace = NoStep

\* submit(file), up to the await of submitJob(file).
Submit ==
    /\ mounted
    /\ submitting + Created < MaxJobs
    /\ isLoading' = TRUE
    /\ error' = NULL
    /\ job' = NoJob
    /\ submitting' = submitting + 1
    /\ superseded' = superseded \cup Tracked
    /\ scenario' = IF scenario = "fresh" THEN "single" ELSE "disturbed"
    /\ UNCHANGED <<pollTimeout, timers, polling, mounted, backend, resetSince,
                   lastStored>>
    /\ UNCHANGED chanVars

\* submitJob resolves: the backend has created job j in status s.  The
\* continuation stores the response and calls pollStatus(j), which runs up
\* to its await of getJobStatus(j).  State setters of an unmounted component
\* have no effect.
SubmitOk(s) ==
    /\ submitting > 0
    /\ Created < MaxJobs
    /\ LET j == Created + 1 IN
        /\ backend' = [backend EXCEPT ![j] = s]
        /\ job' = IF mounted THEN JobResponse(j, s) ELSE job
        /\ lastStored' = IF mounted THEN [lastStored EXCEPT ![j] = s]
                         ELSE lastStored
        /\ polling' = [polling EXCEPT ![j] = @ + 1]
    /\ submitting' = submitting - 1
    /\ UNCHANGED <<error, isLoading, pollTimeout, timers, mounted, superseded,
                   resetSince, scenario>>
    /\ UNCHANGED chanVars

\* submitJob rejects with a transport error carrying message msg.
SubmitFail(msg) ==
    /\ submitting > 0
    /\ submitting' = submitting - 1
    /\ error' = IF mounted THEN ErrorText(msg, "Failed to submit job") ELSE error
    /\ isLoading' = IF mounted THEN FALSE ELSE isLoading
    /\ scenario' = "disturbed"
    /\ UNCHANGED <<job, pollTimeout, timers, polling, mounted, backend,
                   superseded, resetSince, lastStored>>
    /\ UNCHANGED chanVars

\* getJobStatus(j) resolves with the job's current status: the continuation
\* of pollStatus(j) after its await.
PollOk(j) ==
    /\ polling[j] > 0
    /\ LET s == backend[j] IN
        /\ job' = IF mounted THEN JobResponse(j, s) ELSE job
        /\ lastStored' = IF mounted THEN [lastStored EXCEPT ![j] = s]
                         ELSE lastStored
        /\ IF IsTerminal(s)
           THEN /\ timers' = StopPollingTimers
                /\ pollTimeout' = NoTimer
                /\ isLoading' = IF mounted THEN LoadingAfterTerminal
                                ELSE isLoading
           ELSE /\ timers' = [timers EXCEPT ![j] = @ + 1]
                /\ pollTimeout' = Handle(j)
                /\ UNCHANGED isLoading
    /\ polling' = [polling EXCEPT ![j] = @ - 1]
    /\ resetSince' = resetSince \ {j}
    /\ superseded' = superseded \cap TrackedIn(polling', timers')
    /\ UNCHANGED <<error, submitting, mounted, backend, scenario>>
    /\ UNCHANGED chanVars

\* getJobStatus(j) rejects with a transport error: the catch of pollStatus.
PollFail(j, msg) ==
    /\ polling[j] > 0
    /\ error' = IF mounted THEN ErrorText(msg, "Failed to poll job status")
                ELSE error
    /\ timers' = StopPollingTimers
    /\ pollTimeout' = NoTimer
    /\ isLoading' = IF mounted THEN FALSE ELSE isLoading
    /\ polling' = [polling EXCEPT ![j] = @ - 1]
    /\ resetSince' = resetSince \ {j}
    /\ scenario' = "disturbed"
    /\ superseded' = superseded \cap TrackedIn(polling', timers')
    /\ UNCHANGED <<job, submitting, mounted, backend, lastStored>>
    /\ UNCHANGED chanVars

\* A poll timer of job j fires: () => pollStatus(j) runs up to its await.
\* The ref is not cleared: if it held the handle of this timer, it now
\* holds the handle of a fired timer.  (When several timers of j are
\* pending, the ref may name this one or another.)
TimerFire(j, named) ==
    /\ timers[j] > 0
    /\ timers' = AfterFire(j)
    /\ IF pollTimeout = Handle(j)
       THEN /\ (timers[j] = 1 => named)
            /\ pollTimeout' = IF named /\ timers'[j] < timers[j]
                              THEN FiredTimer ELSE pollTimeout
       ELSE /\ ~named
            /\ UNCHANGED pollTimeout
    /\ polling' = [polling EXCEPT ![j] = @ + 1]
    /\ UNCHANGED <<job, error, isLoading, submitting, mounted, backend,
                   superseded, resetSince, lastStored, scenario>>
    /\ UNCHANGED chanVars

\* reset()
Reset ==
    /\ mounted
    /\ timers' = StopPollingTimers
    /\ pollTimeout' = NoTimer
    /\ job' = NoJob
    /\ error' = NULL
    /\ isLoading' = FALSE
    /\ resetSince' = resetSince \cup {j \in JobIds : polling[j] > 0}
    /\ scenario' = IF scenario \in {"single", "resetInFlight"} /\ submitting > 0
                   THEN "resetInFlight" ELSE "disturbed"
    /\ superseded' = superseded \cap TrackedIn(polling, timers')
    /\ UNCHANGED <<submitting, polling, mounted, backend, lastStored>>
    /\ UNCHANGED chanVars

\* The owning component unmounts: the effect cleanup () => stopPolling()
\* runs and the component's state (job, error, isLoading) is discarded.
Unmount ==
    /\ mounted
    /\ mounted' = FALSE
    /\ timers' = StopPollingTimers
    /\ pollTimeout' = NoTimer
    /\ job' = NoJob
    /\ error' = NULL
    /\ isLoading' = FALSE
    /\ scenario' = "disturbed"
    /\ superseded' = superseded \cap TrackedIn(polling, timers')
    /\ UNCHANGED <<submitting, polling, backend, resetSince,
                   lastStored>>
    /\ UNCHANGED chanVars

\* The backend moves job j forward along pending -> processing ->
\* {completed | failed}; a terminal status never changes.
BackendAdvance(j, s) ==
    /\ backend[j] \in {"pending", "processing"}
    /\ Rank(s) > Rank(backend[j])
    /\ backend' = [backend EXCEPT ![j] = s]
    /\ UNCHANGED <<job, error, isLoading, pollTimeout, timers, submitting,
                   polling, mounted, superseded, resetSince, lastStored, scenario>>
    /\ UNCHANGED chanVars

Next ==
    \/ Submit
    \/ \E s \in Statuses : SubmitOk(s)
    \/ \E msg \in ErrMessages : SubmitFail(msg)
    \/ \E j \in JobIds : PollOk(j)
    \/ \E j \in JobIds, msg \in ErrMessages : PollFail(j, msg)
    \/ \E j \in JobIds, named \in BOOLEAN : TimerFire(j, named)
    \/ Reset
    \/ Unmount
    \/ \E j \in JobIds, s \in Statuses : BackendAdvance(j, s)

Spec == Init /\ [][Next]_vars

\* Every request settles, successfully or not (the API client times out
\* after 30 s), every armed timer fires, and the backend brings every job to
\* completed or failed.
Fairness ==
    /\ WF_vars((\E s \in Statuses : SubmitOk(s)) \/
               (\E msg \in ErrMessages : SubmitFail(msg)))
    /\ \A j \in JobIds :
          /\ WF_vars(PollOk(j) \/ \E msg \in ErrMessages : PollFail(j, msg))
          /\ WF_vars(\E named \in BOOLEAN : TimerFire(j, named))
          /\ WF_vars(\E s \in Statuses : BackendAdvance(j, s))

\* The behaviours up to and including the first disturbance of a single
\* submission (a reset(), an unmount, a transport error or a second
\* submit()), under the fairness above.
Undisturbed == scenario \in {"fresh", "single"}

LiveNext ==
    \/ (Undisturbed /\ Submit)
    \/ (Undisturbed /\ \E s \in Statuses : SubmitOk(s))
    \/ (Undisturbed /\ \E msg \in ErrMessages : SubmitFail(msg))
    \/ (Undisturbed /\ \E j \in JobIds : PollOk(j))
    \/ (Undisturbed /\ \E j \in JobIds, msg \in ErrMessages : PollFail(j, msg))
    \/ (Undisturbed /\ \E j \in JobIds, named \in BOOLEAN : TimerFire(j, named))
    \/ (Undisturbed /\ Reset)
    \/ (Undisturbed /\ Unmount)
    \/ (Undisturbed /\ \E j \in JobIds, s \in Statuses : BackendAdvance(j, s))

LiveSpec == Init /\ [][LiveNext]_vars /\ Fairness

\* ----------------------------------------- the telemetry channel: actions

\* The history record of a step of the channel.
Step(op, s, frame, failed, created, r, dis, hrd) ==
    [op |-> op, sock |-> s, frame |-> frame, failed |-> failed,
     created |-> created, hadTimer |-> chan.pending > 0,
     calls |-> r.calls, threw |-> r.threw, escaped |-> r.escaped,
     disconnected |-> dis,
     heard |-> hrd /\ r.chan.ws # NoSocket
                   /\ r.chan.readyState[r.chan.ws] = "OPEN"]

\* The outcome of a handler that calls no listener.
Quiet(c) ==
    [chan |-> c, hook |-> hook, calls |-> <<>>, threw |-> FALSE,
     escaped |-> FALSE]

\* A caller invokes telemetryService.connect().
ChannelConnect ==
    /\ CanConnect(chan)
    /\ chan' = Connect(chan)
    /\ trace' = Step("connect", NoSocket, NULL, FALSE,
                     ~ConnectReturnsEarly(chan), Quiet(chan'), FALSE,
                     trace.heard)
    /\ UNCHANGED <<hook, jobVars>>

\* A caller invokes telemetryService.disconnect().
ChannelDisconnect ==
    /\ chan' = Disconnect(chan)
    /\ trace' = Step("disconnect", NoSocket, NULL, FALSE, FALSE,
                     Quiet(chan'), TRUE, FALSE)
    /\ UNCHANGED <<hook, jobVars>>

\* A caller other than useWebSocket invokes subscribe(listener).
Subscribe(l) ==
    /\ chan' = [chan EXCEPT !.listeners = SetAdd(@, l)]
    /\ trace' = Step("subscribe", NoSocket, NULL, FALSE, FALSE,
                     Quiet(chan'), trace.disconnected, trace.heard)
    /\ UNCHANGED <<hook, jobVars>>

\* A caller invokes the function subscribe(listener) returned, outside any
\* dispatch.
Unsubscribe(l) ==
    /\ chan' = [chan EXCEPT !.listeners = SetDelete(@, l)]
    /\ trace' = Step("unsubscribe", NoSocket, NULL, FALSE, FALSE,
                     Quiet(chan'), trace.disconnected, trace.heard)
    /\ UNCHANGED <<hook, jobVars>>

\* A component using useWebSocket mounts: the effect connects and
\* subscribes the hook's callback.
HookMount ==
    /\ ~hook.mounted
    /\ CanConnect(chan)
    /\ chan' = [Connect(chan) EXCEPT !.listeners = SetAdd(@, HookListener)]
    /\ hook' = [NewHook EXCEPT !.mounted = TRUE]
    /\ trace' = Step("mount", NoSocket, NULL, FALSE,
                     ~ConnectReturnsEarly(chan), Quiet(chan'), FALSE, FALSE)
    /\ UNCHANGED jobVars

\* The component unmounts: the cleanup unsubscribes, the channel stays
\* connected, the component's state is discarded.
HookUnmount ==
    /\ hook.mounted
    /\ chan' = [chan EXCEPT !.listeners = SetDelete(@, HookListener)]
    /\ hook' = NewHook
    /\ trace' = Step("unmount", NoSocket, NULL, FALSE, FALSE, Quiet(chan'),
                     trace.disconnected, FALSE)
    /\ UNCHANGED jobVars

\* The connection of socket s is established: readyState becomes OPEN and
\* the open event is handled.
SocketOpen(s) ==
    /\ chan.readyState[s] = "CONNECTING"
    /\ chan' = OnOpen([chan EXCEPT !.readyState[s] = "OPEN"])
    /\ trace' = Step("open", s, NULL, FALSE, FALSE, Quiet(chan'),
                     trace.disconnected, trace.heard)
    /\ UNCHANGED <<hook, jobVars>>

\* The connection of socket s is closed: it could not be established, it
\* was lost, the server closed it, or close() has completed.  readyState
\* becomes CLOSED; when the connection failed the error event is handled
\* first; then the close event is handled.
SocketClosed(s, failed) ==
    /\ chan.readyState[s] \in {"CONNECTING", "OPEN", "CLOSING"}
    /\ chan.readyState[s] = "CONNECTING" => failed
    /\ LET c1 == [chan EXCEPT !.readyState[s] = "CLOSED"]
           c2 == IF failed THEN OnError(c1) ELSE c1
       IN  chan' = Collect(OnClose(c2))
    /\ trace' = Step("close", s, NULL, failed, FALSE, Quiet(chan'),
                     trace.disconnected, trace.heard)
    /\ UNCHANGED <<hook, jobVars>>

\* What the arbitrary callbacks do when they are called with the message of
\* a frame: one act for each of them that is subscribed (none is called for
\* a frame that does not parse, and none that is not subscribed).
Behaviours(frame) ==
    LET called == IF JsonParse(frame).ok
                  THEN Range(chan.listeners) \ {HookListener} ELSE {}
    IN  {[l \in ListenerIds \ {HookListener} |->
             IF l \in called THEN a[l] ELSE [kind |-> "return", target |-> 0]] :
            a \in [called -> CallbackActs]}

\* A frame arrives on the open socket s and the message event is handled.
SocketMessage(s, frame, acts) ==
    /\ chan.readyState[s] = "OPEN"
    /\ LET r == OnMessage(chan, hook, frame, acts)
       IN  /\ chan' = r.chan
           /\ hook' = r.hook
           /\ trace' = Step("message", s, frame, FALSE, FALSE, r,
                            trace.disconnected,
                            \/ trace.heard
                            \/ /\ hook.mounted
                               /\ HookListener \in Range(r.calls)
                               /\ JsonParse(frame).type \in {"telemetry", "pong"})
    /\ UNCHANGED jobVars

\* A pending reconnect timer fires.
ReconnectTimerFires ==
    /\ chan.pending > 0
    /\ LET c1 == [chan EXCEPT !.pending = @ - 1]
       IN  /\ CanConnect([c1 EXCEPT !.reconnectTimeout = NULL])
           /\ chan' = OnReconnectTimer(c1)
           /\ trace' = Step("timer", NoSocket, NULL, FALSE,
                            ~ConnectReturnsEarly(c1), Quiet(chan'),
                            trace.disconnected, trace.heard)
    /\ UNCHANGED <<hook, jobVars>>

ChannelNext ==
    \/ ChannelConnect
    \/ ChannelDisconnect
    \/ \E l \in ListenerIds \ {HookListener} : Subscribe(l)
    \/ \E l \in ListenerIds \ {HookListener} : Unsubscribe(l)
    \/ HookMount
    \/ HookUnmount
    \/ \E s \in SockIds : SocketOpen(s)
    \/ \E s \in SockIds, failed \in BOOLEAN : SocketClosed(s, failed)
    \/ \E s \in SockIds, frame \in Frames :
          \E acts \in Behaviours(frame) : SocketMessage(s, frame, acts)
    \/ ReconnectTimerFires

ChannelSpec == Init /\ [][ChannelNext]_vars

\* ------------------------------------------------------------------ claims

\* C1: for every job id, status requests in flight plus pending poll timers
\* number at most one: never two outstanding getJobStatus requests for one
\* job, and never an outstanding request together with a pending poll timer
\* for that job (the next timer is armed only once the request has resolved).
C1_AtMostOnePollInFlight ==
    \A j \in JobIds : polling[j] + timers[j] <= 1

\* A job is being re-polled: its timer has fired and the status request that
\* the timer started is in flight.
C1_Witness ==
    \E j \in JobIds : polling[j] = 1 /\ pollTimeout = FiredTimer

\* C2: once submit() has been called while job j was tracked (timer pending
\* or status request in flight), no step issues a status request for j and
\* no step stores a response of j as the controller's job.
C2_SubmitDiscardsPreviousPolling ==
    [][\A j \in superseded :
          /\ polling'[j] <= polling[j]
          /\ (job' # job => job'.job_id # j)]_vars

\* C3: the response of a status request that was in flight at a reset() is
\* never stored into job and never arms a poll timer.
C3_NoPollResultAfterReset ==
    [][\A j \in resetSince :
          polling'[j] < polling[j] =>
              /\ job' = job
              /\ \A k \in JobIds : timers'[k] <= timers[k]]_vars

\* C4: after teardown no status poll is started and no poll timer is pending.
C4_NoPollAfterTeardown ==
    [][~mounted' =>
          /\ \A j \in JobIds : timers'[j] = 0
          /\ (~mounted => \A j \in JobIds : polling'[j] <= polling[j])]_vars

\* C5: right after reset() the controller is Idle: job, result and error are
\* null, isLoading is false and no poll timer is pending.
C5_ResetReturnsToIdle ==
    [][Reset =>
          /\ job' = NoJob
          /\ Result(job') = NULL
          /\ error' = NULL
          /\ ~isLoading'
          /\ \A j \in JobIds : timers'[j] = 0]_vars
\* The controller has come to rest on a terminal job: not loading, no error,
\* job holding the backend's terminal status (with its result when
\* completed), no poll timer pending and no request in flight.
Settled ==
    /\ ~isLoading
    /\ error = NULL
    /\ job # NoJob
    /\ job.status \in TerminalStatuses
    /\ job.status = backend[job.job_id]
    /\ (job.status = "completed" => Result(job) # NULL)
    /\ submitting = 0
    /\ \A j \in JobIds : timers[j] = 0 /\ polling[j] = 0

\* C6: in a run that is one submit() with no reset, unmount, transport error
\* or second submit(), the controller eventually reaches Settled and stays
\* there.
C6_EventuallySettled ==
    <>[](scenario = "single" => Settled)

\* An undisturbed single submission has come to rest on its terminal job.
C6_Witness ==
    scenario = "single" /\ Settled

\* C7: when the submit request fails with a transport error, the (mounted)
\* controller ends with isLoading false, error non-null, job null and no
\* poll timer pending.  (A failed submission has no job id, so no status
\* request can be issued for it.)
C7_SubmitFailureLeavesNoPolling ==
    [][(mounted /\ \E msg \in ErrMessages : SubmitFail(msg)) =>
          /\ ~isLoading'
          /\ error' # NULL
          /\ job' = NoJob
          /\ \A j \in JobIds : timers'[j] = 0]_vars

\* C8: right after a status request of job j fails with a transport error,
\* the (mounted) controller has error non-null and isLoading false, no poll
\* timer is pending, and j has neither a timer nor a request left that could
\* issue another status request for it.
C8_PollFailureIsFatal ==
    [][\A j \in JobIds :
          (mounted /\ \E msg \in ErrMessages : PollFail(j, msg)) =>
              /\ error' # NULL
              /\ ~isLoading'
              /\ \A k \in JobIds : timers'[k] = 0
              /\ polling'[j] = 0]_vars

\* C9 (as amended): the statuses stored for one job id never move backwards
\* along pending -> processing -> {completed | failed}; once completed or
\* failed is stored for a job id, no later step stores a different status
\* for it or issues a status request for it.  The one request that remains
\* is the poll submit() starts in the same step that stores an already
\* terminal submit response.
C9_StoredStatusMonotone ==
    [][\A j \in JobIds :
          /\ Rank(lastStored[j]) <= Rank(lastStored'[j])
          /\ (lastStored[j] \in TerminalStatuses =>
                 /\ lastStored'[j] = lastStored[j]
                 /\ polling'[j] <= polling[j])]_vars

\* The controller shows a job as completed whose status reached it through
\* polling, and tracks it no longer.
C9_Witness ==
    \E j \in JobIds :
        /\ job = JobResponse(j, "completed")
        /\ lastStored[j] = "completed"
        /\ pollTimeout = NoTimer
        /\ j \notin Tracked
        /\ ~isLoading

\* C9 (as stated): as above, and no step that leaves completed or failed
\* stored for a job id issues a status request for it.
C9_NoRequestOnceTerminalStored ==
    [][\A j \in JobIds :
          /\ Rank(lastStored[j]) <= Rank(lastStored'[j])
          /\ (lastStored[j] \in TerminalStatuses => lastStored'[j] = lastStored[j])
          /\ (lastStored'[j] \in TerminalStatuses => polling'[j] <= polling[j])]_vars

\* C10: once the job shown by the (mounted) controller is completed or
\* failed, only reset() changes it.
C10_TerminalLeftOnlyByReset ==
    [][(mounted' /\ job.status \in TerminalStatuses /\ job' # job) => Reset]_vars

\* C10 weakened to allow submit() as a second way out of a terminal state.
C10_TerminalLeftOnlyByResetOrSubmit ==
    [][(mounted' /\ job.status \in TerminalStatuses /\ job' # job) =>
          (Reset \/ Submit)]_vars

\* ------------------------------------------- claims about the channel

\* The current socket is Open or Connecting.
CurrentIsLive(c) ==
    c.ws # NoSocket /\ c.readyState[c.ws] \in {"OPEN", "CONNECTING"}

\* A close event is handled in this step.
CloseHandled == \E s \in SockIds, failed \in BOOLEAN : SocketClosed(s, failed)

\* This step has handled a frame that parses (every step of the channel
\* records its kind in trace).
ParsedFrameHandled ==
    trace'.op = "message" /\ JsonParse(trace'.frame).ok

\* How many times listener l was called.
Times(l, calls) == Cardinality({i \in 1 .. Len(calls) : calls[i] = l})

\* C11: at most one socket created by the channel is Open or Connecting at
\* any time, and connect() while the current socket is Open or Connecting
\* creates no socket and changes nothing of the channel.
C11_AtMostOneLiveSocket ==
    [][/\ LiveSockets(chan') <= 1
       /\ (ChannelConnect /\ CurrentIsLive(chan)) =>
             (chan' = chan /\ hook' = hook /\ ~trace'.created)]_vars

\* connect() has just been called on a channel whose socket is open.
C11_Witness ==
    /\ trace.op = "connect" /\ ~trace.created
    /\ chan.ws # NoSocket /\ chan.readyState[chan.ws] = "OPEN"

\* C12: after disconnect() and until a caller invokes connect() again, no
\* reconnect timer is pending (the close event of the socket disconnect()
\* closed arms none, one pending at disconnect() was cancelled and does not
\* fire), and no socket is created or left Open or Connecting.
C12_NoReconnectAfterDisconnect ==
    trace.disconnected =>
        /\ chan.pending = 0
        /\ LiveSockets(chan) = 0
        /\ ~trace.created
        /\ trace.op # "timer"

\* disconnect() cancelled a pending reconnect timer and closed a socket,
\* and the close event of that socket has then been handled.
C12_Witness ==
    /\ trace.disconnected /\ trace.op = "close"
    /\ chan.reconnectTimeout = "cancelled"

\* C13: whenever a close event is handled and disconnect() has not been
\* called since the last connect(), a reconnect timer is pending afterwards,
\* and when a reconnect timer fires a connection attempt follows (the
\* current socket is then Open or Connecting).
C13_CloseArmsReconnect ==
    [][/\ (CloseHandled /\ ~trace'.disconnected) => chan'.pending >= 1
       /\ ReconnectTimerFires => CurrentIsLive(chan')]_vars

\* C14: at most one reconnect timer is pending at any time, and after the
\* close (and error) events of a connection loss are handled, with the
\* channel not explicitly closed, exactly one reconnect timer is pending.
C14_ExactlyOneReconnectTimer ==
    [][/\ chan'.pending <= 1
       /\ (CloseHandled /\ ~trace'.disconnected) => chan'.pending = 1]_vars

\* C15: the error handler arms no reconnect timer itself; after an error
\* event and the close event that follows it are handled, a reconnect timer
\* is pending when the channel was not explicitly closed and none is pending
\* when it was.
C15_ErrorReconnectsThroughClose ==
    [][/\ OnError(chan).pending = chan.pending
       /\ OnError(chan).reconnectTimeout = chan.reconnectTimeout
       /\ (\E s \in SockIds : SocketClosed(s, TRUE)) =>
             /\ ~trace'.disconnected => chan'.pending >= 1
             /\ trace'.disconnected => chan'.pending = 0]_vars

\* C16: handling a frame that does not parse calls no listener, lets no
\* exception escape, and leaves the channel (sockets, reconnect timer,
\* listeners) and the hook as they were, the socket still open for the
\* frames that follow.
C16_BadFrameDroppedAlone ==
    [][(trace'.op = "message" /\ ~JsonParse(trace'.frame).ok) =>
          /\ trace'.calls = <<>>
          /\ ~trace'.escaped
          /\ chan' = chan
          /\ hook' = hook
          /\ chan'.readyState[trace'.sock] = "OPEN"]_vars

\* A frame that does not parse has just been handled while listeners were
\* subscribed.
C16_Witness ==
    /\ trace.op = "message" /\ trace.frame = "not-json"
    /\ Len(chan.listeners) = MaxListeners
    /\ chan.readyState[trace.sock] = "OPEN"

\* C17: handling a frame that parses calls, exactly once, every listener
\* that is subscribed when the dispatch starts and is still subscribed when
\* it ends.
C17_DeliveredExactlyOnce ==
    [][ParsedFrameHandled =>
          \A l \in Range(chan.listeners) \cap Range(chan'.listeners) :
             Times(l, trace'.calls) = 1]_vars

\* C18: when listeners are unsubscribed from inside a dispatch in which no
\* callback throws, no exception escapes and every listener subscribed
\* before and after the dispatch is called exactly once.
C18_UnsubscribeDuringDispatch ==
    [][(ParsedFrameHandled /\ chan'.listeners # chan.listeners
           /\ ~trace'.threw) =>
          /\ ~trace'.escaped
          /\ \A l \in Range(chan.listeners) \cap Range(chan'.listeners) :
                Times(l, trace'.calls) = 1]_vars

\* The first listener called has unsubscribed itself during the dispatch
\* and the next one has been called all the same.
C18_Witness ==
    /\ trace.op = "message" /\ ~trace.threw
    /\ Len(trace.calls) = 2
    /\ trace.calls[1] \notin Range(chan.listeners)
    /\ trace.calls[2] \in Range(chan.listeners)

\* C19: isConnected is true exactly when the hook has received a telemetry
\* or pong message since the connection was last lost or closed.
C19_IsConnectedTracksConnection ==
    hook.isConnected <=> trace.heard

\* C20: right after the open event of a connection is handled no reconnect
\* timer is pending and the field holds no handle.
C20_OpenCancelsReconnect ==
    [][(\E s \in SockIds : SocketOpen(s)) =>
          /\ chan'.pending = 0
          /\ chan'.reconnectTimeout = NULL]_vars

\* A connection has just opened while a reconnect timer was pending.
C20_Witness ==
    /\ trace.op = "open" /\ trace.hadTimer
    /\ chan.pending = 0

\* C21: the reconnectTimeout field is non-null exactly when a reconnect
\* timer is pending; it never holds the handle of a cancelled or fired timer.
C21_FieldNamesPendingTimer ==
    (chan.reconnectTimeout # NULL) <=> (chan.pending > 0)

\* C22: whenever the current socket is Open no reconnect timer is pending
\* (so the late close event of a replaced socket arms none while the
\* replacement is Open).
C22_NoTimerWhileOpen ==
    (chan.ws # NoSocket /\ chan.readyState[chan.ws] = "OPEN") =>
        chan.pending = 0

\* C23: handling the error event of a socket that is not the current socket
\* leaves the current socket as it was: this.ws and its readyState do not
\* change.
C23_ErrorOfOldSocketSparesCurrent ==
    [][(trace'.op = "close" /\ trace'.failed /\ chan.ws # NoSocket
           /\ trace'.sock # chan.ws) =>
          /\ chan'.ws = chan.ws
          /\ chan'.readyState[chan.ws] = chan.readyState[chan.ws]]_vars

\* C24: when a callback throws during the dispatch of a parsed message,
\* every listener subscribed before and after the dispatch is still called
\* exactly once, nothing escapes the handler, and the sockets are left as
\* they were (the connection stays open for later messages).
C24_ThrowingListenerIsolated ==
    [][(ParsedFrameHandled /\ trace'.threw) =>
          /\ \A l \in Range(chan.listeners) \cap Range(chan'.listeners) :
                Times(l, trace'.calls) = 1
          /\ ~trace'.escaped
          /\ chan'.ws = chan.ws
          /\ chan'.readyState = chan.readyState]_vars

\* ------------------------------ further claims about the job controller

\* C25: while the component is mounted, isLoading = false implies that no
\* poll timer is pending and no submit or status request is in flight.
C25_IdleMeansNothingOutstanding ==
    (mounted /\ ~isLoading) =>
        /\ submitting = 0
        /\ \A j \in JobIds : timers[j] = 0 /\ polling[j] = 0

\* C26: when reset() was called while the submit request was in flight, the
\* step in which that request settles stores no job, issues no status
\* request and leaves isLoading false.
C26_ResponseAfterResetDiscarded ==
    [][(scenario = "resetInFlight" /\ mounted' /\ submitting' < submitting) =>
          /\ job' = NoJob
          /\ ~isLoading'
          /\ \A j \in JobIds : polling'[j] = 0 /\ timers'[j] = 0]_vars

====
